---------------------------- MODULE Spec2Model ----------------------------
(***************************************************************************)
(* Multi-tenant wallet derivation, credential caching and gas custody of   *)
(* the polymarket executor (src/src/polymarketClob.ts).                    *)
(*                                                                         *)
(* The program is single-threaded JavaScript: code between two `await`s    *)
(* runs atomically, and every `await` is a point where other calls run.   *)
(* Each action below is one such atomic segment of one call.               *)
(*                                                                         *)
(* Amounts are in units of 0.05 MATIC (5 * 10^16 wei), the largest unit in *)
(* which the three configured amounts are whole numbers.  Gas fees are     *)
(* not charged.                                                            *)
(***************************************************************************)
EXTENDS Integers, Sequences, FiniteSets, TLC

VARIABLES
    calls,          \* the invocations made so far, in order of invocation
    apiCredsCache,  \* Map phone -> ApiCreds          (polymarketClob.ts:19)
    sdkCache,       \* Map phone -> ThirdwebSDK       (polymarketClob.ts:224)
    chainBal,       \* native-token balance of every address, latest block
    txs,            \* every masterWallet.sendTransaction request, in order
    remoteCalls,    \* phone -> number of createOrDeriveApiKey invocations
    derivations,    \* phone -> number of deriveUserPrivateKey invocations
    signers,        \* the ThirdwebSigner instances constructed so far
    walletTxs,      \* every transaction handed to a tenant wallet to send
    warnings,       \* the console.warn lines of checkMasterWalletBalance
    exchangeCalls,  \* every authenticated call made on an L2 ClobClient
    requests,       \* the HTTP requests received, with what became of them
    executorToken,  \* EXECUTOR_API_TOKEN                    (server.ts:14)
    issuedSecret    \* the API secret the exchange issues, standard base64

\* The state of the signing adapters, the health check and the HTTP server.
otherVars == <<signers, walletTxs, warnings, exchangeCalls, requests,
               executorToken, issuedSecret>>

vars == <<calls, apiCredsCache, sdkCache, chainBal, txs, remoteCalls,
          derivations, otherVars>>

----------------------------------------------------------------------------
(* Bounds                                                                  *)

\* Calls made in a run of the whole program (Spec).
MaxCalls == 2

\* Calls made in a run of the credential derivation alone (SpecCreds).
MaxCredsCalls == 3

Phones == {"p1", "p2"}

----------------------------------------------------------------------------
(* Program constants                                                       *)

MATIC_TOP_UP_THRESHOLD_WEI == 2        \* parseEther('0.1')
MATIC_TOP_UP_AMOUNT_WEI == 10          \* parseEther('0.5')
MASTER_WALLET_MIN_BALANCE_WEI == 200   \* parseEther('10')

MASTER_PRIVATE_KEY == [fn |-> "raw", secret |-> "MASTER", salt |-> ""]

----------------------------------------------------------------------------
(* Key derivation and addresses                                            *)

\* Mutant: the derivation mixes in how often it has run for the phone.
deriveUserPrivateKey_Stateful(phone) ==
    [fn |-> "keccak256", secret |-> MASTER_PRIVATE_KEY.secret,
     salt |-> IF derivations[phone] = 0 THEN phone ELSE "rerun"]

\* keccak256 over (master key, phone): a one-way hash, modelled as the
\* injective constructor of its two inputs.
deriveUserPrivateKey(phone) ==
    [fn |-> "keccak256", secret |-> MASTER_PRIVATE_KEY.secret, salt |-> phone]

\* The address of a private key (ethers.Wallet(key).address,
\* sdk.wallet.getAddress()): a deterministic function of the key.
AddressOf(privateKey) == [addrOf |-> privateKey]

MasterAddress == AddressOf(MASTER_PRIVATE_KEY)

Addresses == {MasterAddress} \cup {AddressOf(deriveUserPrivateKey(p)) : p \in Phones}

----------------------------------------------------------------------------
(* JavaScript Map                                                          *)

MapHas(map, k) == k \in DOMAIN map

MapSet(map, k, v) == [x \in DOMAIN map \cup {k} |-> IF x = k THEN v ELSE map[x]]

MapDelete(map, k) == [x \in DOMAIN map \ {k} |-> map[x]]

EmptyMap == [x \in {} |-> 0]

----------------------------------------------------------------------------
(* Strings are sequences of one-character strings.                         *)

Space == " "

RECURSIVE TrimStart(_)
TrimStart(s) ==
    IF s # <<>> /\ Head(s) = Space THEN TrimStart(Tail(s)) ELSE s

RECURSIVE TrimEnd(_)
TrimEnd(s) ==
    IF s # <<>> /\ s[Len(s)] = Space THEN TrimEnd(SubSeq(s, 1, Len(s) - 1)) ELSE s

Trim(s) == TrimEnd(TrimStart(s))

Repeat(c, n) == [i \in 1..n |-> c]

ReplaceAll(s, from, to) == [i \in 1..Len(s) |-> IF s[i] = from THEN to ELSE s[i]]

\* Mutant: the padding is not restored.
normalizeBase64ForAtob_Unpadded(input) ==
    ReplaceAll(ReplaceAll(Trim(input), "-", "+"), "_", "/")

normalizeBase64ForAtob(input) ==
    LET trimmed == Trim(input)
        base64  == ReplaceAll(ReplaceAll(trimmed, "-", "+"), "_", "/")
        padLen  == (4 - (Len(base64) % 4)) % 4
    IN  base64 \o Repeat("=", padLen)

\* A JavaScript value of a response field: a string, or something that is
\* not a string (undefined, a number).
JsString(s) == [type |-> "string", str |-> s]
JsUndefined == [type |-> "undefined", str |-> <<>>]
JsNumber    == [type |-> "number", str |-> <<>>]

IsNonBlankString(v) == v.type = "string" /\ Len(Trim(v.str)) # 0

\* Mutant: the passphrase is not checked.
CoerceError_PassphraseUnchecked(raw) ==
    LET key == IF raw.key.type = "string" THEN raw.key ELSE raw.apiKey
    IN  IF raw.type # "object" THEN "Invalid api creds: not an object"
        ELSE IF ~IsNonBlankString(key) THEN "Invalid api creds: missing key/apiKey"
        ELSE IF ~IsNonBlankString(raw.secret) THEN "Invalid api creds: missing secret"
        ELSE ""

\* coerceApiCreds: which required field is rejected, "" when none is.
CoerceError(raw) ==
    LET key == IF raw.key.type = "string" THEN raw.key ELSE raw.apiKey
    IN  IF raw.type # "object" THEN "Invalid api creds: not an object"
        ELSE IF ~IsNonBlankString(key) THEN "Invalid api creds: missing key/apiKey"
        ELSE IF ~IsNonBlankString(raw.secret) THEN "Invalid api creds: missing secret"
        ELSE IF ~IsNonBlankString(raw.passphrase) THEN "Invalid api creds: missing passphrase"
        ELSE ""

\* coerceApiCreds: the credential returned when no field is rejected.
coerceApiCreds(raw) ==
    LET key == IF raw.key.type = "string" THEN raw.key ELSE raw.apiKey
    IN  [key        |-> Trim(key.str),
         passphrase |-> Trim(raw.passphrase.str),
         secret     |-> normalizeBase64ForAtob(raw.secret.str)]

NoCreds == [key |-> <<>>, passphrase |-> <<>>, secret |-> <<>>]


\* A response object with the fields coerceApiCreds reads.
ResponseObject(key, apiKey, secret, passphrase) ==
    [type |-> "object", key |-> key, apiKey |-> apiKey,
     secret |-> secret, passphrase |-> passphrase]

\* null in place of a response object
NoResponse ==
    [type |-> "null", key |-> JsUndefined, apiKey |-> JsUndefined,
     secret |-> JsUndefined, passphrase |-> JsUndefined]

\* The responses createOrDeriveApiKey can give for a tenant: the canonical
\* shape, the alternate field name with a URL-safe unpadded secret, and
\* malformed shapes.
RawResponses(phone) ==
    LET k == <<"k", phone>>
        obj(key, apiKey, secret, pass) ==
            [type |-> "object", key |-> key, apiKey |-> apiKey,
             secret |-> secret, passphrase |-> pass]
    IN  { obj(JsString(k), JsUndefined, JsString(<<"a", "+", "/", "=">>), JsString(<<"w">>)),
          obj(JsUndefined, JsString(k \o <<Space>>), JsString(<<"a", "-", "_">>), JsString(<<Space, "w">>)),
          obj(JsString(k), JsUndefined, JsUndefined, JsString(<<"w">>)),
          obj(JsNumber, JsUndefined, JsString(<<"a", "+", "/", "=">>), JsString(<<"w">>)),
          obj(JsString(k), JsUndefined, JsString(<<"a", "+", "/", "=">>), JsString(<<Space>>)),
          [type |-> "null", key |-> JsUndefined, apiKey |-> JsUndefined,
           secret |-> JsUndefined, passphrase |-> JsUndefined] }

----------------------------------------------------------------------------
(* Errors                                                                  *)

JsError(message) == [name |-> "Error", message |-> message]

NoError == [name |-> "", message |-> <<>>]

RpcError == JsError(<<"rpc error">>)

\* polymarketClob.ts:293
WalletCreationFailed(error) ==
    JsError(<<"Thirdweb wallet creation failed: ">> \o error.message)

\* polymarketClob.ts:500
MasterInsufficientError ==
    JsError(<<"CRITICAL: Master wallet has insufficient MATIC">>)

\* polymarketClob.ts:519
GasCheckFailed(error) ==
    JsError(<<"Gas balance check failed: ">> \o error.message)

----------------------------------------------------------------------------
(* Calls                                                                   *)

\* No provider bound (this.provider is undefined).
NoProvider == ""

NoKey == [fn |-> "", secret |-> "", salt |-> ""]

NoAddress == AddressOf(NoKey)

Unread == -1

CallIds == 1..Len(calls)

Finished(c) == calls[c].pc \in {"done", "failed"}

\* A call as invoked: its arguments, its position, its locals not yet
\* assigned.
NewCall(op, phone, pc) ==
    [op |-> op, phone |-> phone, pc |-> pc,
     after |-> {},
     privateKey |-> NoKey, address |-> NoAddress,
     signer |-> 0, provider |-> NoProvider, returned |-> 0, awaits |-> 0,
     userBalance |-> Unread, masterBalance |-> Unread,
     tx |-> 0,
     cacheHit |-> FALSE, remoteInvoked |-> FALSE,
     raw |-> NoResponse, creds |-> NoCreds, error |-> NoError]

At(c, op, pc) == calls[c].op = op /\ calls[c].pc = pc

Return(call) == [call EXCEPT !.pc = "done"]

\* Mutant: a failed submission or confirmation wait of ensureGasBalance is
\* answered by submitting again.
Throw_RetrySend(call, error) ==
    IF call.op = "ensureGasBalance" /\ call.pc \in {"await_send", "await_wait"}
    THEN [call EXCEPT !.pc = "await_send"]
    ELSE [call EXCEPT !.pc = "failed", !.error = error]

Throw(call, error) == [call EXCEPT !.pc = "failed", !.error = error]

----------------------------------------------------------------------------
(* Signer cache                                                            *)

\* getSDKForUser: the cache after the call (the SDK is built from the
\* derived key on a miss).
getSDKForUser(cache, phone) ==
    IF ~MapHas(cache, phone)
    THEN MapSet(cache, phone, [privateKey |-> deriveUserPrivateKey(phone)])
    ELSE cache

\* One more run of deriveUserPrivateKey(phone).
CountDerivation(count, phone) == [count EXCEPT ![phone] = @ + 1]

\* getSDKForUser: the derivations run so far, after the call (it derives
\* on a miss only).
SdkDerivations(count, cache, phone) ==
    IF ~MapHas(cache, phone) THEN CountDerivation(count, phone) ELSE count

\* sdk.wallet.getAddress()
SdkWalletAddress(sdk) == AddressOf(sdk.privateKey)

----------------------------------------------------------------------------
(* Gas custodian helpers                                                   *)

\* Mutant: the comparison includes the threshold itself.
NeedsTopUp_AtThreshold(userBalance) == userBalance <= MATIC_TOP_UP_THRESHOLD_WEI

\* userBalance.lt(MATIC_TOP_UP_THRESHOLD_WEI)
NeedsTopUp(userBalance) == userBalance < MATIC_TOP_UP_THRESHOLD_WEI

\* Mutant: a master balance equal to the top-up amount is refused.
MasterInsufficient_Inclusive(masterBalance) == masterBalance <= MATIC_TOP_UP_AMOUNT_WEI

\* masterBalance.lt(MATIC_TOP_UP_AMOUNT_WEI)
MasterInsufficient(masterBalance) == masterBalance < MATIC_TOP_UP_AMOUNT_WEI

\* The request handed to masterWallet.sendTransaction.
TopUpRequest(userAddress) ==
    [from |-> MasterAddress, to |-> userAddress, value |-> MATIC_TOP_UP_AMOUNT_WEI]

\* Mutant: the call goes on as soon as the transaction is broadcast.
WaitResolves_OnBroadcast(tx) == tx.status \in {"pending", "mined"}

\* tx.wait() resolves once the transaction is included in a block.
WaitResolves(tx) == tx.status = "mined"

\* tx.wait() rejects (replaced, dropped, provider failure while polling).
WaitRejects(tx) == tx.status \in {"pending", "dropped"}

----------------------------------------------------------------------------
(* Initial state: empty caches, no call made, any balances on chain.       *)

UserInitBalances ==
    {MATIC_TOP_UP_THRESHOLD_WEI - 1, MATIC_TOP_UP_THRESHOLD_WEI}

MasterInitBalances ==
    {MATIC_TOP_UP_AMOUNT_WEI - 1, MATIC_TOP_UP_AMOUNT_WEI, 2 * MATIC_TOP_UP_AMOUNT_WEI}

\* The token the service is deployed with.
\* The secret of RawResponses in its standard padded encoding.
DeployedSecret == <<"a", "+", "/", "=">>

DeployedToken == <<"s", "3", "c">>

\* Module initialisation: empty caches, nothing called, sent or received.
InitProgram ==
    /\ calls = <<>>
    /\ apiCredsCache = EmptyMap
    /\ sdkCache = EmptyMap
    /\ txs = <<>>
    /\ remoteCalls = [p \in Phones |-> 0]
    /\ derivations = [p \in Phones |-> 0]
    /\ signers = <<>>
    /\ walletTxs = <<>>
    /\ warnings = <<>>
    /\ exchangeCalls = <<>>
    /\ requests = <<>>

\* The chain: a master balance from the given set, any tenant balances.
InitChain(masterBalances) ==
    \E m \in masterBalances, u \in [Phones -> UserInitBalances] :
        chainBal = [a \in Addresses |->
                       IF a = MasterAddress THEN m
                       ELSE u[CHOOSE p \in Phones : a = AddressOf(deriveUserPrivateKey(p))]]

Init ==
    /\ InitProgram
    /\ InitChain(MasterInitBalances)
    /\ executorToken = DeployedToken
    /\ issuedSecret = DeployedSecret

SetCall(c, call) == calls' = [calls EXCEPT ![c] = call]

----------------------------------------------------------------------------
(* getOrCreateServerWallet(phone)                          lines 276-295   *)

\* 276-281: getSDKForUser, then await sdk.wallet.getAddress()
CallGetOrCreateServerWallet(limit) ==
    /\ Len(calls) < limit
    /\ \E phone \in Phones :
          /\ calls' = Append(calls, NewCall("getOrCreateServerWallet", phone, "await_getAddress"))
          /\ sdkCache' = getSDKForUser(sdkCache, phone)
          /\ derivations' = SdkDerivations(derivations, sdkCache, phone)
    /\ UNCHANGED <<apiCredsCache, chainBal, txs, remoteCalls, otherVars>>

\* 281-290: the address resolves, the WalletInfo is returned
WalletResolved ==
    /\ \E c \in CallIds :
          /\ At(c, "getOrCreateServerWallet", "await_getAddress")
          /\ SetCall(c, Return([calls[c] EXCEPT
                 !.address = SdkWalletAddress(sdkCache[calls[c].phone])]))
    /\ UNCHANGED <<apiCredsCache, sdkCache, chainBal, txs, remoteCalls, derivations, otherVars>>

\* 291-294: the address lookup rejects
WalletFailed ==
    /\ \E c \in CallIds :
          /\ At(c, "getOrCreateServerWallet", "await_getAddress")
          /\ SetCall(c, Throw(calls[c], WalletCreationFailed(JsError(<<"sdk error">>))))
    /\ UNCHANGED <<apiCredsCache, sdkCache, chainBal, txs, remoteCalls, derivations, otherVars>>

----------------------------------------------------------------------------
(* getApiCreds(phone)                                        lines 50-81   *)

\* A getApiCreds call as invoked.  `after` records the getApiCreds calls for
\* the same phone that had already returned or thrown at that moment (the
\* calls this one comes after, as opposed to those it is concurrent with).
NewCredsCall(phone, pc) ==
    [NewCall("getApiCreds", phone, pc) EXCEPT
        !.after = {c \in CallIds : /\ calls[c].op = "getApiCreds"
                                   /\ calls[c].phone = phone
                                   /\ Finished(c)}]

\* The cache when getApiCreds stores a derived credential (line 71).
CredsCacheOnSuccess(cache, phone, creds) == MapSet(cache, phone, creds)

\* Mutant: the failure handler leaves the cache as it is.
CredsCacheOnFailure_Keep(cache, phone) == cache

\* Mutant: the failure handler clears the whole cache.
CredsCacheOnFailure_Clear(cache, phone) == EmptyMap

\* The cache when getApiCreds catches a failure (line 77).
CredsCacheOnFailure(cache, phone) == MapDelete(cache, phone)

\* 52-54: cache hit, the cached credential is returned
CallGetApiCredsHit(limit) ==
    /\ Len(calls) < limit
    /\ \E phone \in Phones :
          /\ MapHas(apiCredsCache, phone)
          /\ calls' = Append(calls,
                 [NewCredsCall(phone, "done") EXCEPT
                     !.cacheHit = TRUE, !.creds = apiCredsCache[phone]])
    /\ UNCHANGED <<apiCredsCache, sdkCache, chainBal, txs, remoteCalls, derivations, otherVars>>

\* 52, 56-58: cache miss, await getThirdwebSigner(phone), which derives
\* the key (line 398) before it first yields
CallGetApiCredsMiss(limit) ==
    /\ Len(calls) < limit
    /\ \E phone \in Phones :
          /\ ~MapHas(apiCredsCache, phone)
          /\ calls' = Append(calls, NewCredsCall(phone, "await_signer"))
          /\ derivations' = CountDerivation(derivations, phone)
    /\ UNCHANGED <<apiCredsCache, sdkCache, chainBal, txs, remoteCalls, otherVars>>

\* 58-67: the signer is ready, l1.createOrDeriveApiKey(nonce) is invoked
CredsInvokeRemote ==
    /\ \E c \in CallIds :
          /\ At(c, "getApiCreds", "await_signer")
          /\ SetCall(c, [calls[c] EXCEPT !.pc = "await_remote", !.remoteInvoked = TRUE])
          /\ remoteCalls' = [remoteCalls EXCEPT ![calls[c].phone] = @ + 1]
    /\ UNCHANGED <<apiCredsCache, sdkCache, chainBal, txs, derivations, otherVars>>

\* 67-74: the response is well formed: normalize, cache, return
CredsDerived ==
    /\ \E c \in CallIds :
          /\ At(c, "getApiCreds", "await_remote")
          /\ \E raw \in RawResponses(calls[c].phone) :
                /\ CoerceError(raw) = ""
                /\ apiCredsCache' =
                       CredsCacheOnSuccess(apiCredsCache, calls[c].phone, coerceApiCreds(raw))
                /\ SetCall(c, Return([calls[c] EXCEPT !.creds = coerceApiCreds(raw)]))
    /\ UNCHANGED <<sdkCache, chainBal, txs, remoteCalls, derivations, otherVars>>

\* 68, 75-79: coerceApiCreds throws on the response
CredsInvalidShape ==
    /\ \E c \in CallIds :
          /\ At(c, "getApiCreds", "await_remote")
          /\ \E raw \in RawResponses(calls[c].phone) :
                /\ CoerceError(raw) # ""
                /\ apiCredsCache' = CredsCacheOnFailure(apiCredsCache, calls[c].phone)
                /\ SetCall(c, Throw(calls[c], JsError(<<CoerceError(raw)>>)))
    /\ UNCHANGED <<sdkCache, chainBal, txs, remoteCalls, derivations, otherVars>>

\* 67, 75-79: the remote call rejects (transport error)
CredsRemoteFailed ==
    /\ \E c \in CallIds :
          /\ At(c, "getApiCreds", "await_remote")
          /\ apiCredsCache' = CredsCacheOnFailure(apiCredsCache, calls[c].phone)
          /\ SetCall(c, Throw(calls[c], JsError(<<"network error">>)))
    /\ UNCHANGED <<sdkCache, chainBal, txs, remoteCalls, derivations, otherVars>>

----------------------------------------------------------------------------
(* ensureGasBalance(userPhone)                             lines 475-521   *)

\* A sendTransaction request as the chain sees it: who made it, what the
\* node answered, and the master balance when the node received it.
ChainTx(request, by, status) ==
    [from |-> request.from, to |-> request.to, value |-> request.value,
     by |-> by, status |-> status, masterAtSubmit |-> chainBal[MasterAddress]]

\* 475-483: getOrCreateServerWallet: getSDKForUser, await getAddress
CallEnsureGasBalance(limit) ==
    /\ Len(calls) < limit
    /\ \E phone \in Phones :
          /\ calls' = Append(calls, NewCall("ensureGasBalance", phone, "await_getAddress"))
          /\ sdkCache' = getSDKForUser(sdkCache, phone)
          /\ derivations' = SdkDerivations(derivations, sdkCache, phone)
    /\ UNCHANGED <<apiCredsCache, chainBal, txs, remoteCalls, otherVars>>

\* 483-484: the wallet address resolves, provider.getBalance(user) is sent
GasWalletResolved ==
    /\ \E c \in CallIds :
          /\ At(c, "ensureGasBalance", "await_getAddress")
          /\ SetCall(c, [calls[c] EXCEPT
                 !.pc = "await_userBalance",
                 !.address = SdkWalletAddress(sdkCache[calls[c].phone])])
    /\ UNCHANGED <<apiCredsCache, sdkCache, chainBal, txs, remoteCalls, derivations, otherVars>>

\* 291-294, 517-520: the wallet lookup rejects
GasWalletFailed ==
    /\ \E c \in CallIds :
          /\ At(c, "ensureGasBalance", "await_getAddress")
          /\ SetCall(c, Throw(calls[c],
                 GasCheckFailed(WalletCreationFailed(JsError(<<"sdk error">>)))))
    /\ UNCHANGED <<apiCredsCache, sdkCache, chainBal, txs, remoteCalls, derivations, otherVars>>

\* 484-489, 514-516: the balance is at or above the threshold: return
GasSufficient ==
    /\ \E c \in CallIds :
          /\ At(c, "ensureGasBalance", "await_userBalance")
          /\ ~NeedsTopUp(chainBal[calls[c].address])
          /\ SetCall(c, Return([calls[c] EXCEPT !.userBalance = chainBal[calls[c].address]]))
    /\ UNCHANGED <<apiCredsCache, sdkCache, chainBal, txs, remoteCalls, derivations, otherVars>>

\* 484-494: the balance is below the threshold: provider.getBalance(master)
GasBelowThreshold ==
    /\ \E c \in CallIds :
          /\ At(c, "ensureGasBalance", "await_userBalance")
          /\ NeedsTopUp(chainBal[calls[c].address])
          /\ SetCall(c, [calls[c] EXCEPT
                 !.pc = "await_masterBalance",
                 !.userBalance = chainBal[calls[c].address]])
    /\ UNCHANGED <<apiCredsCache, sdkCache, chainBal, txs, remoteCalls, derivations, otherVars>>

\* 484 or 494, 517-520: a balance read rejects
GasBalanceReadFailed ==
    /\ \E c \in CallIds :
          /\ \/ At(c, "ensureGasBalance", "await_userBalance")
             \/ At(c, "ensureGasBalance", "await_masterBalance")
          /\ SetCall(c, Throw(calls[c], GasCheckFailed(RpcError)))
    /\ UNCHANGED <<apiCredsCache, sdkCache, chainBal, txs, remoteCalls, derivations, otherVars>>

\* 494-501, 517-520: the master balance is below the top-up amount
GasMasterInsufficient ==
    /\ \E c \in CallIds :
          /\ At(c, "ensureGasBalance", "await_masterBalance")
          /\ MasterInsufficient(chainBal[MasterAddress])
          /\ SetCall(c, Throw([calls[c] EXCEPT !.masterBalance = chainBal[MasterAddress]],
                 GasCheckFailed(MasterInsufficientError)))
    /\ UNCHANGED <<apiCredsCache, sdkCache, chainBal, txs, remoteCalls, derivations, otherVars>>

\* 494-507: the master balance suffices: masterWallet.sendTransaction(...)
GasSendTopUp ==
    /\ \E c \in CallIds :
          /\ At(c, "ensureGasBalance", "await_masterBalance")
          /\ ~MasterInsufficient(chainBal[MasterAddress])
          /\ SetCall(c, [calls[c] EXCEPT
                 !.pc = "await_send",
                 !.masterBalance = chainBal[MasterAddress]])
    /\ UNCHANGED <<apiCredsCache, sdkCache, chainBal, txs, remoteCalls, derivations, otherVars>>

\* 504-511: the node accepts the transaction, tx.wait() starts
GasTxAccepted ==
    /\ \E c \in CallIds :
          /\ At(c, "ensureGasBalance", "await_send")
          /\ chainBal[MasterAddress] >= TopUpRequest(calls[c].address).value
          /\ txs' = Append(txs, ChainTx(TopUpRequest(calls[c].address), c, "pending"))
          /\ SetCall(c, [calls[c] EXCEPT !.pc = "await_wait", !.tx = Len(txs) + 1])
    /\ UNCHANGED <<apiCredsCache, sdkCache, chainBal, remoteCalls, derivations, otherVars>>

\* 504-507, 517-520: the node refuses the transaction (insufficient funds
\* when the balance no longer covers the value, or any other refusal)
GasTxRejected ==
    /\ \E c \in CallIds :
          /\ At(c, "ensureGasBalance", "await_send")
          /\ txs' = Append(txs, ChainTx(TopUpRequest(calls[c].address), c, "rejected"))
          /\ SetCall(c, Throw([calls[c] EXCEPT !.tx = Len(txs) + 1],
                 GasCheckFailed(JsError(<<"transaction rejected">>))))
    /\ UNCHANGED <<apiCredsCache, sdkCache, chainBal, remoteCalls, derivations, otherVars>>

\* 511-513: the confirmation wait resolves: return
GasConfirmed ==
    /\ \E c \in CallIds :
          /\ At(c, "ensureGasBalance", "await_wait")
          /\ WaitResolves(txs[calls[c].tx])
          /\ SetCall(c, Return(calls[c]))
    /\ UNCHANGED <<apiCredsCache, sdkCache, chainBal, txs, remoteCalls, derivations, otherVars>>

\* 511, 517-520: the confirmation wait rejects
GasConfirmationFailed ==
    /\ \E c \in CallIds :
          /\ At(c, "ensureGasBalance", "await_wait")
          /\ WaitRejects(txs[calls[c].tx])
          /\ SetCall(c, Throw(calls[c], GasCheckFailed(JsError(<<"confirmation failed">>))))
    /\ UNCHANGED <<apiCredsCache, sdkCache, chainBal, txs, remoteCalls, derivations, otherVars>>

----------------------------------------------------------------------------
(* The chain                                                               *)

\* A pending transfer is included in a block: the value moves.
MineTx ==
    /\ \E i \in 1..Len(txs) :
          /\ txs[i].status = "pending"
          /\ chainBal[txs[i].from] >= txs[i].value
          /\ chainBal' = [chainBal EXCEPT ![txs[i].from] = @ - txs[i].value,
                                          ![txs[i].to] = @ + txs[i].value]
          /\ txs' = [txs EXCEPT ![i].status = "mined"]
    /\ UNCHANGED <<calls, apiCredsCache, sdkCache, remoteCalls, derivations, otherVars>>

\* A pending transfer the sender can no longer pay for is dropped.
DropTx ==
    /\ \E i \in 1..Len(txs) :
          /\ txs[i].status = "pending"
          /\ chainBal[txs[i].from] < txs[i].value
          /\ txs' = [txs EXCEPT ![i].status = "dropped"]
    /\ UNCHANGED <<calls, apiCredsCache, sdkCache, chainBal, remoteCalls, derivations, otherVars>>

----------------------------------------------------------------------------

Next ==
    \/ CallGetOrCreateServerWallet(MaxCalls)
    \/ WalletResolved
    \/ WalletFailed
    \/ CallGetApiCredsHit(MaxCalls)
    \/ CallGetApiCredsMiss(MaxCalls)
    \/ CredsInvokeRemote
    \/ CredsDerived
    \/ CredsInvalidShape
    \/ CredsRemoteFailed
    \/ CallEnsureGasBalance(MaxCalls)
    \/ GasWalletResolved
    \/ GasWalletFailed
    \/ GasSufficient
    \/ GasBelowThreshold
    \/ GasBalanceReadFailed
    \/ GasMasterInsufficient
    \/ GasSendTopUp
    \/ GasTxAccepted
    \/ GasTxRejected
    \/ GasConfirmed
    \/ GasConfirmationFailed
    \/ MineTx
    \/ DropTx

Spec == Init /\ [][Next]_vars

\* The credential derivation alone, with more concurrent calls.
NextCreds ==
    \/ CallGetApiCredsHit(MaxCredsCalls)
    \/ CallGetApiCredsMiss(MaxCredsCalls)
    \/ CredsInvokeRemote
    \/ CredsDerived
    \/ CredsInvalidShape
    \/ CredsRemoteFailed

\* No gas operation runs here: the chain is fixed to one balance sheet.
InitCreds ==
    /\ Init
    /\ chainBal[MasterAddress] = MATIC_TOP_UP_AMOUNT_WEI
    /\ \A a \in Addresses \ {MasterAddress} : chainBal[a] = MATIC_TOP_UP_THRESHOLD_WEI

SpecCreds == InitCreds /\ [][NextCreds]_vars

----------------------------------------------------------------------------
(* Properties of the gas custodian                                         *)

GasCalls == {c \in CallIds : calls[c].op = "ensureGasBalance"}

\* The sendTransaction requests a call made, and those the node accepted.
TxsBy(c) == {i \in 1..Len(txs) : txs[i].by = c}

AcceptedTxsBy(c) == {i \in TxsBy(c) : txs[i].status # "rejected"}

UserAddress(phone) == AddressOf(deriveUserPrivateKey(phone))

ReadBelowThreshold(c) ==
    /\ calls[c].userBalance # Unread
    /\ calls[c].userBalance <= MATIC_TOP_UP_THRESHOLD_WEI - 1

\* C1: of two ensureGasBalance calls for the same tenant that are in flight
\* at the same time and both read a balance below the threshold, at most
\* one gets a top-up transfer onto the chain.
C1_AtMostOneConcurrentTopUp ==
    \A c1 \in GasCalls, c2 \in GasCalls :
        ( /\ c1 # c2
          /\ calls[c1].phone = calls[c2].phone
          /\ ~Finished(c1) /\ ~Finished(c2)
          /\ ReadBelowThreshold(c1) /\ ReadBelowThreshold(c2) )
        => Cardinality(AcceptedTxsBy(c1) \cup AcceptedTxsBy(c2)) <= 1

\* C2: no top-up transfer is handed to the chain at a moment when the
\* master balance is below the value of the transfer (the master balance a
\* call read is still valid when it spends).
C2_NoSpendOnStaleMasterRead ==
    \A i \in 1..Len(txs) :
        txs[i].from = MasterAddress => txs[i].masterAtSubmit >= txs[i].value

\* C3: a call that read a tenant balance at or above the threshold returns
\* without reading the master balance and without any transfer; a call
\* that read threshold - 1 or less and found the master funded makes
\* exactly one transfer request, of the top-up amount, from the master to
\* the tenant's derived address.
C3_ThresholdBoundary ==
    \A c \in GasCalls :
        /\ ( /\ calls[c].userBalance # Unread
             /\ calls[c].userBalance >= MATIC_TOP_UP_THRESHOLD_WEI )
           => /\ calls[c].pc = "done"
              /\ calls[c].masterBalance = Unread
              /\ TxsBy(c) = {}
        /\ ( /\ ReadBelowThreshold(c)
             /\ calls[c].masterBalance # Unread
             /\ calls[c].masterBalance >= MATIC_TOP_UP_AMOUNT_WEI )
           => /\ Cardinality(TxsBy(c)) = (IF calls[c].pc = "await_send" THEN 0 ELSE 1)
              /\ \A i \in TxsBy(c) :
                    /\ txs[i].value = MATIC_TOP_UP_AMOUNT_WEI
                    /\ txs[i].to = UserAddress(calls[c].phone)
                    /\ txs[i].from = MasterAddress
              /\ calls[c].pc = "done" => \A i \in TxsBy(c) : txs[i].status = "mined"

\* C3 witness: one call returned at exactly the threshold with no transfer,
\* another read threshold - 1 and returned after its single transfer.
C3_Witness ==
    \E c1 \in GasCalls, c2 \in GasCalls :
        /\ calls[c1].pc = "done"
        /\ calls[c1].userBalance = MATIC_TOP_UP_THRESHOLD_WEI
        /\ TxsBy(c1) = {}
        /\ calls[c2].pc = "done"
        /\ calls[c2].userBalance = MATIC_TOP_UP_THRESHOLD_WEI - 1
        /\ Cardinality(TxsBy(c2)) = 1
        /\ chainBal[UserAddress(calls[c2].phone)] =
               MATIC_TOP_UP_THRESHOLD_WEI - 1 + MATIC_TOP_UP_AMOUNT_WEI

\* C4: a call that read a tenant balance below the threshold and a master
\* balance below the top-up amount has failed with the insufficient-master
\* error and made no transfer; with a master balance at or above the
\* top-up amount that error does not occur.
C4_MasterInsufficiency ==
    \A c \in GasCalls :
        (ReadBelowThreshold(c) /\ calls[c].masterBalance # Unread) =>
            /\ calls[c].masterBalance < MATIC_TOP_UP_AMOUNT_WEI
               => /\ calls[c].pc = "failed"
                  /\ calls[c].error = GasCheckFailed(MasterInsufficientError)
                  /\ TxsBy(c) = {}
            /\ calls[c].masterBalance >= MATIC_TOP_UP_AMOUNT_WEI
               => calls[c].error # GasCheckFailed(MasterInsufficientError)

\* C4 witness: a call failed on a master balance short of the top-up
\* amount, and a call that read exactly the top-up amount went on to its
\* transfer.
C4_Witness ==
    \E c1 \in GasCalls, c2 \in GasCalls :
        /\ calls[c1].pc = "failed"
        /\ ReadBelowThreshold(c1)
        /\ calls[c1].masterBalance # Unread
        /\ calls[c1].masterBalance < MATIC_TOP_UP_AMOUNT_WEI
        /\ TxsBy(c1) = {}
        /\ calls[c1].error = GasCheckFailed(MasterInsufficientError)
        /\ calls[c2].masterBalance = MATIC_TOP_UP_AMOUNT_WEI
        /\ AcceptedTxsBy(c2) # {}

\* C5: a call that returned success either read a tenant balance at or
\* above the threshold, or its top-up transfer to the tenant is confirmed
\* on chain; a call whose transfer the node refused has failed, and a
\* successful call carries no error.
C5_NoSuccessUnfunded ==
    \A c \in GasCalls :
        /\ calls[c].pc = "done" =>
              /\ calls[c].error = NoError
              /\ calls[c].userBalance # Unread
              /\ \/ calls[c].userBalance >= MATIC_TOP_UP_THRESHOLD_WEI
                 \/ /\ calls[c].tx \in TxsBy(c)
                    /\ txs[calls[c].tx].status = "mined"
                    /\ txs[calls[c].tx].to = UserAddress(calls[c].phone)
        /\ (\E i \in TxsBy(c) : txs[i].status \in {"rejected", "dropped"})
              => calls[c].pc \in {"failed", "await_wait"}

\* C5 witness: a call returned success after its transfer was confirmed.
C5_Witness ==
    \E c \in GasCalls :
        /\ calls[c].pc = "done"
        /\ ReadBelowThreshold(c)
        /\ calls[c].tx # 0
        /\ txs[calls[c].tx].status = "mined"

\* C6: a failure caused by insufficient master funds and a failure of the
\* transfer or of its confirmation are reported with different error kinds.
C6_DistinctErrorKinds ==
    \A c1 \in GasCalls, c2 \in GasCalls :
        ( /\ calls[c1].pc = "failed"
          /\ calls[c1].masterBalance # Unread
          /\ calls[c1].masterBalance < MATIC_TOP_UP_AMOUNT_WEI
          /\ calls[c2].pc = "failed"
          /\ calls[c2].tx # 0 )
        => calls[c1].error.name # calls[c2].error.name

----------------------------------------------------------------------------
(* Properties of the credential cache                                      *)

CredsCalls == {c \in CallIds : calls[c].op = "getApiCreds"}

\* The earlier getApiCreds calls for the same tenant that had returned a
\* credential before call c was invoked.
SucceededBefore(c) == {d \in calls[c].after : calls[d].pc = "done"}

\* C7: a getApiCreds call invoked after a getApiCreds call for the same
\* tenant has succeeded returns that same credential from the cache and
\* does not invoke createOrDeriveApiKey.
C7_LaterCallsUseCache ==
    \A c \in CredsCalls :
        SucceededBefore(c) # {} =>
            /\ calls[c].cacheHit
            /\ ~calls[c].remoteInvoked
            /\ \A d \in SucceededBefore(c) : calls[c].creds = calls[d].creds

\* C8: in the step in which a getApiCreds call fails the cache is left
\* with no entry for its tenant; a call invoked while the cache has no
\* entry for its tenant takes the derivation path, and returns only after
\* having invoked createOrDeriveApiKey.
C8_FailureLeavesNoEntry ==
    [][ \A c \in 1..Len(calls') :
          calls'[c].op = "getApiCreds" =>
            /\ ( /\ calls'[c].pc = "failed"
                 /\ c <= Len(calls) => calls[c].pc # "failed" )
               => ~MapHas(apiCredsCache', calls'[c].phone)
            /\ ( /\ c > Len(calls)
                 /\ ~MapHas(apiCredsCache, calls'[c].phone) )
               => /\ calls'[c].pc = "await_signer"
                  /\ ~calls'[c].cacheHit
            /\ ( /\ calls'[c].pc = "done"
                 /\ ~calls'[c].cacheHit )
               => calls'[c].remoteInvoked
      ]_vars

\* C8 witness: a call failed, and a call invoked after that failure for the
\* same tenant invoked the remote derivation again and returned.
C8_Witness ==
    \E c1 \in CredsCalls, c2 \in CredsCalls :
        /\ c1 \in calls[c2].after
        /\ calls[c1].pc = "failed"
        /\ calls[c1].remoteInvoked
        /\ calls[c2].remoteInvoked
        /\ calls[c2].pc = "done"
        /\ remoteCalls[calls[c2].phone] >= 2

\* C9: an entry of the credential cache is never removed or replaced.
C9_CachedStaysCached ==
    [][ \A p \in DOMAIN apiCredsCache :
          /\ MapHas(apiCredsCache', p)
          /\ apiCredsCache'[p] = apiCredsCache[p] ]_vars

\* C10: a step of a call for one tenant, its failure included, leaves the
\* signer-cache and credential-cache entries of every other tenant as
\* they were.
C10_OtherTenantsUntouched ==
    [][ \A c \in 1..Len(calls') :
          (c > Len(calls) \/ calls'[c] # calls[c]) =>
             \A b \in Phones \ {calls'[c].phone} :
                /\ MapHas(apiCredsCache', b) = MapHas(apiCredsCache, b)
                /\ MapHas(apiCredsCache, b) => apiCredsCache'[b] = apiCredsCache[b]
                /\ MapHas(sdkCache', b) = MapHas(sdkCache, b)
                /\ MapHas(sdkCache, b) => sdkCache'[b] = sdkCache[b]
      ]_vars

\* C10 witness: a getApiCreds call has failed for one tenant while the
\* caches hold the entries of another tenant.
C10_Witness ==
    \E c \in CredsCalls, b \in Phones :
        /\ calls[c].pc = "failed"
        /\ b # calls[c].phone
        /\ MapHas(apiCredsCache, b)

----------------------------------------------------------------------------
(* getThirdwebSigner(phone)                                lines 397-405   *)

\* Calls made in a run of the signer functions alone (SpecKdf).
MaxKdfCalls == 3

\* 397-398: the key is derived, then the function yields on its await
CallGetThirdwebSigner(limit) ==
    /\ Len(calls) < limit
    /\ \E phone \in Phones :
          /\ calls' = Append(calls,
                 [NewCall("getThirdwebSigner", phone, "await_privateKey") EXCEPT
                     !.privateKey = deriveUserPrivateKey(phone)])
          /\ derivations' = CountDerivation(derivations, phone)
    /\ UNCHANGED <<apiCredsCache, sdkCache, chainBal, txs, remoteCalls, otherVars>>

\* 399-404: a new ethers.Wallet over the key is built and returned
SignerBuilt ==
    /\ \E c \in CallIds :
          /\ At(c, "getThirdwebSigner", "await_privateKey")
          /\ SetCall(c, Return([calls[c] EXCEPT
                 !.address = AddressOf(calls[c].privateKey)]))
    /\ UNCHANGED <<apiCredsCache, sdkCache, chainBal, txs, remoteCalls, derivations, otherVars>>

\* The two ways to a tenant's signer, alone: getThirdwebSigner and the SDK
\* cache behind getOrCreateServerWallet.
NextKdf ==
    \/ CallGetThirdwebSigner(MaxKdfCalls)
    \/ SignerBuilt
    \/ CallGetOrCreateServerWallet(MaxKdfCalls)
    \/ WalletResolved
    \/ WalletFailed

SpecKdf == InitCreds /\ [][NextKdf]_vars

----------------------------------------------------------------------------
(* Properties of key derivation and the signer cache                       *)

SignerCalls == {c \in CallIds : calls[c].op = "getThirdwebSigner"}

WalletCalls == {c \in CallIds : calls[c].op = "getOrCreateServerWallet"}

\* C11: for every tenant the key derivation runs at most once, however
\* many calls ask for the tenant's signer, and every signer returned for
\* the tenant is the handle built by the first call.
C11_DerivedAtMostOnce ==
    /\ \A p \in Phones : derivations[p] <= 1
    /\ \A c1 \in SignerCalls, c2 \in SignerCalls :
          ( /\ c1 # c2
            /\ calls[c1].phone = calls[c2].phone )
          => ~(calls[c1].pc = "done" /\ calls[c2].pc = "done")

----------------------------------------------------------------------------
(* class ThirdwebSigner                                    lines 313-391   *)

\* ThirdwebSigner instances constructed in a run of the adapter (SpecAdapter).
MaxSigners == 2

\* Method calls made in a run of the adapter (SpecAdapter).
MaxAdapterCalls == 1

Providers == {"rpc1", "rpc2"}

\* 319: the optional provider argument of the constructor
ConstructorProviders == {NoProvider, "rpc1"}

SignerIds == 1..Len(signers)

\* 314-334: a ThirdwebSigner as its constructor leaves it: no address yet,
\* one wallet address lookup under way (getOrCreateServerWallet, line 328).
NewSigner(phone, provider, parent) ==
    [phone |-> phone, provider |-> provider, parent |-> parent,
     privAddress |-> NoAddress,     \* this._address (null)
     address |-> NoAddress,         \* this.address ('')
     lookups |-> 1,                 \* sdk.wallet.getAddress() calls made for it
     init |-> "pending"]

\* 319-343: new ThirdwebSigner(phone, provider?)
ConstructSigner(limit) ==
    /\ Len(signers) < limit
    /\ \E phone \in Phones, provider \in ConstructorProviders :
          /\ signers' = Append(signers, NewSigner(phone, provider, 0))
          /\ sdkCache' = getSDKForUser(sdkCache, phone)
          /\ derivations' = SdkDerivations(derivations, sdkCache, phone)
    /\ UNCHANGED <<calls, apiCredsCache, chainBal, txs, remoteCalls,
                   walletTxs, warnings, exchangeCalls, requests, executorToken,
                   issuedSecret>>

\* Mutant: only the public field is written.
MemoizeAddress_PublicOnly(signer, a) == [signer EXCEPT !.address = a]

\* 330-331, 347-348: this.address and this._address are written together
MemoizeAddress(signer, a) == [signer EXCEPT !.privAddress = a, !.address = a]

\* 329-332: the constructor's lookup resolves: both address fields are set
SignerInitResolved ==
    /\ \E s \in SignerIds :
          /\ signers[s].init = "pending"
          /\ signers' = [signers EXCEPT
                 ![s] = MemoizeAddress([@ EXCEPT !.init = "resolved"],
                                       SdkWalletAddress(sdkCache[signers[s].phone]))]
    /\ UNCHANGED <<calls, apiCredsCache, sdkCache, chainBal, txs, remoteCalls, derivations,
                   walletTxs, warnings, exchangeCalls, requests, executorToken,
                   issuedSecret>>

\* 332-334: the constructor's lookup rejects: logged, fields left unset
SignerInitFailed ==
    /\ \E s \in SignerIds :
          /\ signers[s].init = "pending"
          /\ signers' = [signers EXCEPT ![s].init = "failed"]
    /\ UNCHANGED <<calls, apiCredsCache, sdkCache, chainBal, txs, remoteCalls, derivations,
                   walletTxs, warnings, exchangeCalls, requests, executorToken,
                   issuedSecret>>

\* A method call on signer s as invoked.
NewSignerCall(op, s, pc) ==
    [NewCall(op, signers[s].phone, pc) EXCEPT !.signer = s]

\* 345-346, 350: getAddress() with this._address set: it is returned
CallGetAddressMemoized(limit) ==
    /\ Len(calls) < limit
    /\ \E s \in SignerIds :
          /\ signers[s].privAddress # NoAddress
          /\ calls' = Append(calls,
                 [NewSignerCall("getAddress", s, "done") EXCEPT
                     !.address = signers[s].privAddress])
    /\ UNCHANGED <<apiCredsCache, sdkCache, chainBal, txs, remoteCalls, derivations, otherVars>>

\* 345-347: getAddress() with this._address unset: a lookup is started
CallGetAddressLookup(limit) ==
    /\ Len(calls) < limit
    /\ \E s \in SignerIds :
          /\ signers[s].privAddress = NoAddress
          /\ calls' = Append(calls, NewSignerCall("getAddress", s, "await_getAddress"))
          /\ signers' = [signers EXCEPT ![s].lookups = @ + 1]
    /\ UNCHANGED <<apiCredsCache, sdkCache, chainBal, txs, remoteCalls, derivations,
                   walletTxs, warnings, exchangeCalls, requests, executorToken,
                   issuedSecret>>

\* 347-350: the lookup resolves: both fields are set, the address returned
GetAddressResolved ==
    /\ \E c \in CallIds :
          /\ At(c, "getAddress", "await_getAddress")
          /\ LET s == calls[c].signer
                 a == SdkWalletAddress(sdkCache[signers[s].phone])
             IN  /\ signers' = [signers EXCEPT ![s] = MemoizeAddress(@, a)]
                 /\ SetCall(c, Return([calls[c] EXCEPT !.address = a]))
    /\ UNCHANGED <<apiCredsCache, sdkCache, chainBal, txs, remoteCalls, derivations,
                   walletTxs, warnings, exchangeCalls, requests, executorToken,
                   issuedSecret>>

\* 347: the lookup rejects: getAddress() rejects with it
GetAddressFailed ==
    /\ \E c \in CallIds :
          /\ At(c, "getAddress", "await_getAddress")
          /\ SetCall(c, Throw(calls[c], JsError(<<"sdk error">>)))
    /\ UNCHANGED <<apiCredsCache, sdkCache, chainBal, txs, remoteCalls, derivations, otherVars>>

\* Mutant: connect rebinds the adapter it is called on and returns it.
ConnectedSigners_InPlace(all, s, provider) ==
    Append([all EXCEPT ![s].provider = provider],
           NewSigner(all[s].phone, provider, s))

\* 371-373: the instances after connect(provider) on signer s: one more,
\* constructed for the same phone and bound to the provider.
ConnectedSigners(all, s, provider) ==
    Append(all, NewSigner(all[s].phone, provider, s))

\* 371-373, 319-343: connect(provider)
CallConnect(limit, signerLimit) ==
    /\ Len(calls) < limit
    /\ Len(signers) < signerLimit
    /\ \E s \in SignerIds, provider \in Providers :
          /\ signers' = ConnectedSigners(signers, s, provider)
          /\ sdkCache' = getSDKForUser(sdkCache, signers[s].phone)
          /\ derivations' = SdkDerivations(derivations, sdkCache, signers[s].phone)
          /\ calls' = Append(calls,
                 [NewSignerCall("connect", s, "done") EXCEPT
                     !.provider = provider, !.returned = Len(signers) + 1])
    /\ UNCHANGED <<apiCredsCache, chainBal, txs, remoteCalls,
                   walletTxs, warnings, exchangeCalls, requests, executorToken,
                   issuedSecret>>

\* Mutant: the provider check is left out.
HasProvider_Unchecked(signer) == TRUE

\* 378: this.provider is set
HasProvider(signer) == signer.provider # NoProvider

\* 379
ProviderRequired == JsError(<<"Provider required to send transaction">>)

\* 386-388
SendTransactionFailed(error) ==
    JsError(<<"Failed to send transaction: ">> \o error.message)

\* A transaction handed to a tenant's wallet.  `gasChecked` records whether
\* ensureGasBalance had been invoked for the tenant by then.
WalletTx(phone, via, by, s) ==
    [phone |-> phone, via |-> via, by |-> by, signer |-> s,
     gasChecked |-> \E c \in CallIds :
                       calls[c].op = "ensureGasBalance" /\ calls[c].phone = phone]

\* 376-380, 386-389: sendTransaction() without a provider rejects
CallSendTransactionNoProvider(limit) ==
    /\ Len(calls) < limit
    /\ \E s \in SignerIds :
          /\ ~HasProvider(signers[s])
          /\ calls' = Append(calls,
                 Throw(NewSignerCall("sendTransaction", s, "failed"),
                       SendTransactionFailed(ProviderRequired)))
    /\ UNCHANGED <<apiCredsCache, sdkCache, chainBal, txs, remoteCalls, derivations, otherVars>>

\* 376-383: sendTransaction() with a provider: sdk.wallet.sendRawTransaction
CallSendTransaction(limit) ==
    /\ Len(calls) < limit
    /\ \E s \in SignerIds :
          /\ HasProvider(signers[s])
          /\ calls' = Append(calls, NewSignerCall("sendTransaction", s, "await_sendRaw"))
          /\ walletTxs' = Append(walletTxs,
                 WalletTx(signers[s].phone, "ThirdwebSigner.sendTransaction", Len(calls) + 1, s))
    /\ UNCHANGED <<apiCredsCache, sdkCache, chainBal, txs, remoteCalls, derivations,
                   signers, warnings, exchangeCalls, requests, executorToken,
                   issuedSecret>>

\* 383-385: the wallet returns the transaction response
SendRawResolved ==
    /\ \E c \in CallIds :
          /\ At(c, "sendTransaction", "await_sendRaw")
          /\ SetCall(c, Return(calls[c]))
    /\ UNCHANGED <<apiCredsCache, sdkCache, chainBal, txs, remoteCalls, derivations, otherVars>>

\* 383, 386-389: the wallet rejects
SendRawFailed ==
    /\ \E c \in CallIds :
          /\ At(c, "sendTransaction", "await_sendRaw")
          /\ SetCall(c, Throw(calls[c], SendTransactionFailed(JsError(<<"sdk error">>))))
    /\ UNCHANGED <<apiCredsCache, sdkCache, chainBal, txs, remoteCalls, derivations, otherVars>>

\* The signing adapter alone.
NextAdapter ==
    \/ ConstructSigner(MaxSigners)
    \/ SignerInitResolved
    \/ SignerInitFailed
    \/ CallGetAddressMemoized(MaxAdapterCalls)
    \/ CallGetAddressLookup(MaxAdapterCalls)
    \/ GetAddressResolved
    \/ GetAddressFailed
    \/ CallConnect(MaxAdapterCalls, MaxSigners)
    \/ CallSendTransactionNoProvider(MaxAdapterCalls)
    \/ CallSendTransaction(MaxAdapterCalls)
    \/ SendRawResolved
    \/ SendRawFailed

SpecAdapter == InitCreds /\ [][NextAdapter]_vars

----------------------------------------------------------------------------
(* Claims about the signing adapter.                                       *)

AdapterCalls(op) == {c \in CallIds : calls[c].op = op}

\* C12: for each adapter instance the wallet address lookup is invoked at
\* most once; later getAddress() calls return the memoized address.
C12_AddressLookedUpOnce ==
    \A s \in SignerIds : signers[s].lookups <= 1

\* C13: sendTransaction on an adapter without a provider fails with the
\* missing-provider error and hands no transaction to the wallet; only
\* adapters bound to a provider ever submit one.
C13_NoProviderNoSubmission ==
    /\ \A c \in AdapterCalls("sendTransaction") :
          ~(signers[calls[c].signer].provider # NoProvider) =>
             /\ calls[c].pc = "failed"
             /\ calls[c].error = SendTransactionFailed(ProviderRequired)
             /\ \A w \in 1..Len(walletTxs) : walletTxs[w].by # c
    /\ \A w \in 1..Len(walletTxs) :
          signers[walletTxs[w].signer].provider # NoProvider

C13_Witness ==
    \E c \in AdapterCalls("sendTransaction") :
       /\ signers[calls[c].signer].provider = NoProvider
       /\ calls[c].pc = "failed"
       /\ walletTxs = <<>>

\* C14: connect(provider) returns a new adapter for the same tenant bound to
\* the given provider and leaves every existing adapter, the one it was
\* called on included, exactly as it was.
C14_ConnectLeavesOriginal ==
    [][ (Len(calls') = Len(calls) + 1 /\ calls'[Len(calls')].op = "connect") =>
           LET call == calls'[Len(calls')]
               s == call.signer
               r == call.returned
           IN  /\ s \in SignerIds
               /\ r \in 1..Len(signers') /\ r \notin SignerIds
               /\ signers'[r].phone = signers[s].phone
               /\ signers'[r].provider = call.provider
               /\ \A t \in SignerIds : signers'[t] = signers[t]
      ]_vars

C14_Witness ==
    \E c \in AdapterCalls("connect") :
       /\ calls[c].returned # calls[c].signer
       /\ signers[calls[c].returned].provider # signers[calls[c].signer].provider
       /\ signers[calls[c].returned].phone = signers[calls[c].signer].phone

----------------------------------------------------------------------------
(* checkMasterWalletBalance                                lines 527-547   *)

\* Calls of checkMasterWalletBalance made in a run of SpecHealth.
MaxHealthCalls == 2

\* Master balances around the operator-alert threshold.
HealthMasterBalances ==
    {MASTER_WALLET_MIN_BALANCE_WEI - 1,
     MASTER_WALLET_MIN_BALANCE_WEI,
     MASTER_WALLET_MIN_BALANCE_WEI + 1}

InitHealth ==
    /\ InitProgram
    /\ InitChain(HealthMasterBalances)
    /\ executorToken = DeployedToken
    /\ issuedSecret = DeployedSecret

\* Mutant: the warning is also given at the alert threshold itself.
MasterLow_Inclusive(balance) == balance <= MASTER_WALLET_MIN_BALANCE_WEI

\* 540: masterBalance.lt(MASTER_WALLET_MIN_BALANCE_WEI)
MasterLow(balance) == balance < MASTER_WALLET_MIN_BALANCE_WEI

\* 541-542: the console.warn lines of one check
LowBalanceWarning(by, balance) ==
    [by |-> by, level |-> "warn", balance |-> balance, address |-> MasterAddress]

\* 527-535: checkMasterWalletBalance() up to the balance read
CallCheckMasterWalletBalance(limit) ==
    /\ Len(calls) < limit
    /\ calls' = Append(calls,
           [NewCall("checkMasterWalletBalance", "", "await_masterBalance") EXCEPT
               !.address = MasterAddress])
    /\ UNCHANGED <<apiCredsCache, sdkCache, chainBal, txs, remoteCalls, derivations, otherVars>>

\* 535-543: the balance is read; a warning is logged when it is low
HealthBalanceRead ==
    /\ \E c \in CallIds :
          /\ At(c, "checkMasterWalletBalance", "await_masterBalance")
          /\ LET balance == chainBal[calls[c].address]
             IN  /\ SetCall(c, Return([calls[c] EXCEPT !.masterBalance = balance]))
                 /\ warnings' = IF MasterLow(balance)
                                THEN Append(warnings, LowBalanceWarning(c, balance))
                                ELSE warnings
    /\ UNCHANGED <<apiCredsCache, sdkCache, chainBal, txs, remoteCalls, derivations,
                   signers, walletTxs, exchangeCalls, requests, executorToken,
                   issuedSecret>>

\* 535, 544-546: the balance read rejects: logged with console.error, and
\* the function returns normally
HealthBalanceReadFailed ==
    /\ \E c \in CallIds :
          /\ At(c, "checkMasterWalletBalance", "await_masterBalance")
          /\ SetCall(c, Return(calls[c]))
    /\ UNCHANGED <<apiCredsCache, sdkCache, chainBal, txs, remoteCalls, derivations, otherVars>>

NextHealth ==
    \/ CallCheckMasterWalletBalance(MaxHealthCalls)
    \/ HealthBalanceRead
    \/ HealthBalanceReadFailed

SpecHealth == InitHealth /\ [][NextHealth]_vars

HealthCalls == {c \in CallIds : calls[c].op = "checkMasterWalletBalance"}

WarnedBy(c) == \E w \in 1..Len(warnings) : warnings[w].by = c

\* C15: checkMasterWalletBalance reads the master balance only (no tenant
\* balance, no transfer, no cache change), warns exactly when the balance it
\* read is strictly below the operator-alert threshold, and never fails,
\* not even when the balance read fails.
C15_HealthCheckReadsAndWarnsOnly ==
    /\ \A c \in HealthCalls :
          /\ calls[c].pc # "failed" /\ calls[c].error = NoError
          /\ calls[c].userBalance = Unread
          /\ calls[c].address = MasterAddress
          /\ calls[c].tx = 0
          /\ calls[c].masterBalance # Unread =>
                calls[c].masterBalance = chainBal[MasterAddress]
          /\ WarnedBy(c) <=>
                /\ calls[c].masterBalance # Unread
                /\ calls[c].masterBalance < MASTER_WALLET_MIN_BALANCE_WEI
    /\ HealthCalls # {} =>
          /\ txs = <<>> /\ walletTxs = <<>>
          /\ apiCredsCache = EmptyMap /\ sdkCache = EmptyMap

C15_Witness ==
    \E c1, c2 \in HealthCalls :
       /\ calls[c1].pc = "done" /\ calls[c2].pc = "done"
       /\ calls[c1].masterBalance = MASTER_WALLET_MIN_BALANCE_WEI - 1 /\ WarnedBy(c1)
       /\ calls[c2].masterBalance = Unread /\ ~WarnedBy(c2)

----------------------------------------------------------------------------
(* coerceApiCreds and normalizeBase64ForAtob               lines 21-43     *)

\* Length of the issued secret, in groups of four base64 characters.
MaxQuads == 1

\* Applications of coerceApiCreds in a run of SpecNorm.
MaxNormCalls == 2

Base64Chars == {"a", "+", "/"}

\* Standard base64 strings: whole groups of four characters, the last one
\* ending in zero, one or two "=".
StandardSecrets ==
    UNION { { body \o tail :
                body \in [1..(4 * (q - 1)) -> Base64Chars],
                tail \in UNION { { data \o Repeat("=", pad) :
                                     data \in [1..(4 - pad) -> Base64Chars] } :
                                 pad \in 0..2 } } :
            q \in 1..MaxQuads }

RECURSIVE StripPadding(_)
StripPadding(s) ==
    IF Len(s) > 0 /\ s[Len(s)] = "=" THEN StripPadding(SubSeq(s, 1, Len(s) - 1)) ELSE s

\* The URL-safe unpadded encoding of the bytes of a standard base64 string.
ToUrlSafeUnpadded(s) == ReplaceAll(ReplaceAll(StripPadding(s), "+", "-"), "/", "_")

\* The response in its canonical form: field key, standard padded secret.
CanonicalResponse(secret) ==
    ResponseObject(JsString(<<"k">>), JsUndefined, JsString(secret), JsString(<<"w">>))

\* The same response in its alternate form: field apiKey, URL-safe
\* unpadded secret.
AlternateResponse(secret) ==
    ResponseObject(JsUndefined, JsString(<<"k">>),
                   JsString(ToUrlSafeUnpadded(secret)), JsString(<<"w">>))

InitNorm ==
    /\ InitProgram
    /\ InitChain({MATIC_TOP_UP_AMOUNT_WEI})
    /\ \A a \in Addresses \ {MasterAddress} : chainBal[a] = MATIC_TOP_UP_THRESHOLD_WEI
    /\ executorToken = DeployedToken
    /\ issuedSecret \in StandardSecrets

\* 28-43: coerceApiCreds(raw) returns the credential
CoerceAccepted(limit) ==
    /\ Len(calls) < limit
    /\ \E raw \in {CanonicalResponse(issuedSecret), AlternateResponse(issuedSecret)} :
          /\ CoerceError(raw) = ""
          /\ calls' = Append(calls,
                 [NewCall("coerceApiCreds", "", "done") EXCEPT
                     !.raw = raw, !.creds = coerceApiCreds(raw)])
    /\ UNCHANGED <<apiCredsCache, sdkCache, chainBal, txs, remoteCalls, derivations, otherVars>>

\* 29-36: coerceApiCreds(raw) throws
CoerceRejected(limit) ==
    /\ Len(calls) < limit
    /\ \E raw \in {CanonicalResponse(issuedSecret), AlternateResponse(issuedSecret),
                   NoResponse} :
          /\ CoerceError(raw) # ""
          /\ calls' = Append(calls,
                 [Throw(NewCall("coerceApiCreds", "", "failed"),
                        JsError(<<CoerceError(raw)>>)) EXCEPT !.raw = raw])
    /\ UNCHANGED <<apiCredsCache, sdkCache, chainBal, txs, remoteCalls, derivations, otherVars>>

NextNorm ==
    \/ CoerceAccepted(MaxNormCalls)
    \/ CoerceRejected(MaxNormCalls)

SpecNorm == InitNorm /\ [][NextNorm]_vars

CoerceCalls == {c \in CallIds : calls[c].op = "coerceApiCreds"}

\* C17: the response with the alternate field name and the URL-safe
\* unpadded secret is normalized to exactly the credential of the response
\* with the canonical field name and the standard padded secret, and a
\* standard padded secret comes out of the normalization unchanged.
C17_NormalizationRepresentationIndependent ==
    \A c1, c2 \in CoerceCalls :
       (/\ calls[c1].raw = CanonicalResponse(issuedSecret)
        /\ calls[c2].raw = AlternateResponse(issuedSecret)) =>
          /\ calls[c1].pc = "done" /\ calls[c2].pc = "done"
          /\ calls[c1].creds = calls[c2].creds
          /\ calls[c1].creds.secret = issuedSecret
          /\ calls[c1].creds.key = <<"k">>

C17_Witness ==
    \E c1, c2 \in CoerceCalls :
       /\ calls[c1].raw = CanonicalResponse(issuedSecret)
       /\ calls[c2].raw = AlternateResponse(issuedSecret)
       /\ calls[c1].raw.secret # calls[c2].raw.secret
       /\ Len(calls[c2].raw.secret.str) < Len(issuedSecret)
       /\ "-" \in {calls[c2].raw.secret.str[i] : i \in 1..Len(calls[c2].raw.secret.str)}
       /\ calls[c1].pc = "done" /\ calls[c2].pc = "done"

----------------------------------------------------------------------------
(* HTTP server: token check                          server.ts lines 14-33 *)

\* Requests received in a run of SpecServer.
MaxRequests == 2

\* Values of process.env.EXECUTOR_API_TOKEN: unset, blank, set, set with a
\* leading space.
EnvTokens == {<<>>, <<Space>>, DeployedToken, <<Space>> \o DeployedToken}

\* server.ts:14
ConfiguredToken(env) == Trim(env)

Paths == {"/health", "/polymarket/balance", "/polymarket/orders/market"}

\* req.header("x-executor-token"): absent, empty, the deployed token,
\* another token.
Headers == {JsUndefined, JsString(<<>>), JsString(DeployedToken), JsString(<<"x">>)}

InitServer ==
    /\ InitProgram
    /\ InitChain({MATIC_TOP_UP_AMOUNT_WEI})
    /\ \A a \in Addresses \ {MasterAddress} : chainBal[a] = MATIC_TOP_UP_THRESHOLD_WEI
    /\ issuedSecret = DeployedSecret
    /\ executorToken \in {ConfiguredToken(env) : env \in EnvTokens}

\* Mutant: the server does not check that a token is configured.
TokenMissing_Unchecked(token) == FALSE

\* server.ts:19: !EXECUTOR_API_TOKEN
TokenMissing(token) == Len(token) = 0

\* server.ts:24: token !== EXECUTOR_API_TOKEN
TokenDiffers(header, token) == header # JsString(token)

\* What became of a request: the status the middleware answered with (0 when
\* it answered nothing) and whether it called next().
Request(path, header, status, handlerRan) ==
    [path |-> path, header |-> header, status |-> status, handlerRan |-> handlerRan]

ReceiveRequest(limit, path, header, status, handlerRan) ==
    /\ Len(requests) < limit
    /\ requests' = Append(requests, Request(path, header, status, handlerRan))
    /\ UNCHANGED <<calls, apiCredsCache, sdkCache, chainBal, txs, remoteCalls, derivations,
                   signers, walletTxs, warnings, exchangeCalls, executorToken, issuedSecret>>

\* server.ts:17, 31-33: /health passes the middleware and is served
RequestHealth(limit) ==
    \E path \in Paths, header \in Headers :
       /\ path = "/health"
       /\ ReceiveRequest(limit, path, header, 0, TRUE)

\* server.ts:17-21: no token configured: 500
RequestTokenMissing(limit) ==
    \E path \in Paths \ {"/health"}, header \in Headers :
       /\ TokenMissing(executorToken)
       /\ ReceiveRequest(limit, path, header, 500, FALSE)

\* server.ts:17-26: header absent or different: 401
RequestUnauthorized(limit) ==
    \E path \in Paths \ {"/health"}, header \in Headers :
       /\ ~TokenMissing(executorToken)
       /\ TokenDiffers(header, executorToken)
       /\ ReceiveRequest(limit, path, header, 401, FALSE)

\* server.ts:17-28: next(): the endpoint handler runs
RequestAuthorized(limit) ==
    \E path \in Paths \ {"/health"}, header \in Headers :
       /\ ~TokenMissing(executorToken)
       /\ ~TokenDiffers(header, executorToken)
       /\ ReceiveRequest(limit, path, header, 0, TRUE)

NextServer ==
    \/ RequestHealth(MaxRequests)
    \/ RequestTokenMissing(MaxRequests)
    \/ RequestUnauthorized(MaxRequests)
    \/ RequestAuthorized(MaxRequests)

SpecServer == InitServer /\ [][NextServer]_vars

RequestIds == 1..Len(requests)

\* C18: a handler other than /health runs only when a non-empty token is
\* configured and the request's x-executor-token header equals it; with no
\* token configured the answer is 500, with a missing or different header
\* 401, both without running the handler; /health is served without token.
C18_HandlersBehindToken ==
    \A r \in RequestIds :
       LET req == requests[r] IN
       IF req.path = "/health" THEN req.handlerRan
       ELSE /\ req.handlerRan =>
                  /\ Len(executorToken) > 0
                  /\ req.header = JsString(executorToken)
            /\ Len(executorToken) = 0 =>
                  req.status = 500 /\ ~req.handlerRan
            /\ (Len(executorToken) > 0 /\ req.header # JsString(executorToken)) =>
                  req.status = 401 /\ ~req.handlerRan

C18_Witness ==
    \E r1, r2 \in RequestIds :
       /\ requests[r1].path # "/health" /\ requests[r1].handlerRan
       /\ requests[r2].path # "/health" /\ requests[r2].status = 401
       /\ requests[r2].header = JsUndefined

----------------------------------------------------------------------------
(* getL2Client(phone) and the calls made on the client                     *)
(* polymarketClob.ts lines 83-92, server.ts lines 55-88                    *)

\* Calls of getL2Client made in a run of SpecL2.
MaxL2Calls == 2

\* server.ts:57, 80: the authenticated calls of the handlers
ExchangeRequests == {"getBalanceAllowance", "createAndPostMarketOrder"}

\* getThirdwebSigner (lines 397-405) and ethers.Wallet.getAddress await
\* nothing outside the process: their promises are settled by the time any
\* response or request is handled, so the code around them runs as one
\* segment.

\* A getL2Client call that has derived the tenant's key twice, in its own
\* getThirdwebSigner and in that of getApiCreds, or once on a cache hit.
NewL2Call(phone) ==
    [NewCall("getL2Client", phone, "await_creds") EXCEPT
        !.privateKey = deriveUserPrivateKey(phone),
        !.awaits = Len(calls) + 2]

\* 83-85, 52-54: getL2Client(phone): the signer is built; getApiCreds(phone)
\* finds the cached credential
CallGetL2ClientCached(limit) ==
    /\ Len(SelectSeq(calls, LAMBDA call : call.op = "getL2Client")) < limit
    /\ \E phone \in Phones :
          /\ MapHas(apiCredsCache, phone)
          /\ calls' = Append(Append(calls, NewL2Call(phone)),
                 [NewCredsCall(phone, "done") EXCEPT
                     !.cacheHit = TRUE, !.creds = apiCredsCache[phone]])
          /\ derivations' = CountDerivation(derivations, phone)
    /\ UNCHANGED <<apiCredsCache, sdkCache, chainBal, txs, remoteCalls, otherVars>>

\* 83-85, 52-58: getL2Client(phone): the signer is built; getApiCreds(phone)
\* finds no entry and awaits its own getThirdwebSigner(phone)
CallGetL2ClientUncached(limit) ==
    /\ Len(SelectSeq(calls, LAMBDA call : call.op = "getL2Client")) < limit
    /\ \E phone \in Phones :
          /\ ~MapHas(apiCredsCache, phone)
          /\ calls' = Append(Append(calls, NewL2Call(phone)),
                             NewCredsCall(phone, "await_signer"))
          /\ derivations' = CountDerivation(CountDerivation(derivations, phone), phone)
    /\ UNCHANGED <<apiCredsCache, sdkCache, chainBal, txs, remoteCalls, otherVars>>

\* 85-91: getApiCreds returned: the funder address is read and the
\* ClobClient is constructed from the signer, the credential and the funder
L2ClientBuilt ==
    /\ \E c \in CallIds :
          /\ At(c, "getL2Client", "await_creds")
          /\ calls[calls[c].awaits].pc = "done"
          /\ SetCall(c, Return([calls[c] EXCEPT
                                   !.creds = calls[calls[c].awaits].creds,
                                   !.address = AddressOf(calls[c].privateKey)]))
    /\ UNCHANGED <<apiCredsCache, sdkCache, chainBal, txs, remoteCalls, derivations, otherVars>>

\* Mutant: getL2Client goes on when getApiCreds has thrown.
AfterCredsFailure_Continue(call, error) ==
    Return([call EXCEPT !.address = AddressOf(call.privateKey)])

\* 85: getApiCreds threw: nothing catches it, getL2Client rejects with it
AfterCredsFailure(call, error) == Throw(call, error)

L2CredsFailed ==
    /\ \E c \in CallIds :
          /\ At(c, "getL2Client", "await_creds")
          /\ calls[calls[c].awaits].pc = "failed"
          /\ SetCall(c, AfterCredsFailure(calls[c], calls[calls[c].awaits].error))
    /\ UNCHANGED <<apiCredsCache, sdkCache, chainBal, txs, remoteCalls, derivations, otherVars>>

\* server.ts:56-57, 79-80: the handler makes its one authenticated call on
\* the client it was given
ClientCall ==
    /\ \E c \in CallIds, request \in ExchangeRequests :
          /\ At(c, "getL2Client", "done")
          /\ \A e \in 1..Len(exchangeCalls) : exchangeCalls[e].by # c
          /\ exchangeCalls' = Append(exchangeCalls,
                 [by |-> c, phone |-> calls[c].phone, request |-> request,
                  creds |-> calls[c].creds, funder |-> calls[c].address])
    /\ UNCHANGED <<calls, apiCredsCache, sdkCache, chainBal, txs, remoteCalls, derivations,
                   signers, walletTxs, warnings, requests, executorToken, issuedSecret>>

NextL2 ==
    \/ CallGetL2ClientCached(MaxL2Calls)
    \/ CallGetL2ClientUncached(MaxL2Calls)
    \/ CredsInvokeRemote
    \/ CredsDerived
    \/ CredsInvalidShape
    \/ CredsRemoteFailed
    \/ L2CredsFailed
    \/ L2ClientBuilt
    \/ ClientCall

SpecL2 == InitCreds /\ [][NextL2]_vars

L2Calls == {c \in CallIds : calls[c].op = "getL2Client"}

ClientConstructed(c) == calls[c].pc = "done"

CredsSucceededFor(c) ==
    /\ calls[c].awaits \in CallIds
    /\ calls[calls[c].awaits].op = "getApiCreds"
    /\ calls[calls[c].awaits].phone = calls[c].phone
    /\ calls[calls[c].awaits].pc = "done"
    /\ calls[calls[c].awaits].creds # NoCreds
    /\ calls[c].creds = calls[calls[c].awaits].creds

\* C19: an authenticated exchange call is made only on a client that was
\* constructed after the tenant's getApiCreds returned a credential; when
\* getApiCreds fails, no client is constructed and no exchange call is made.
C19_CredsBeforeExchangeCalls ==
    /\ \A e \in 1..Len(exchangeCalls) :
          /\ exchangeCalls[e].by \in L2Calls
          /\ ClientConstructed(exchangeCalls[e].by)
          /\ CredsSucceededFor(exchangeCalls[e].by)
          /\ exchangeCalls[e].creds = calls[exchangeCalls[e].by].creds
    /\ \A c \in L2Calls :
          /\ ClientConstructed(c) => CredsSucceededFor(c)
          /\ (calls[c].awaits # 0 /\ calls[calls[c].awaits].pc = "failed") =>
                /\ ~ClientConstructed(c)
                /\ \A e \in 1..Len(exchangeCalls) : exchangeCalls[e].by # c

C19_Witness ==
    \E c1, c2 \in L2Calls :
       /\ calls[c1].pc = "failed" /\ calls[calls[c1].awaits].pc = "failed"
       /\ ClientConstructed(c2)
       /\ \E e \in 1..Len(exchangeCalls) : exchangeCalls[e].by = c2

----------------------------------------------------------------------------
(* sendNativeToken(phone, toAddress, amountWei)            lines 422-442   *)

\* Calls made in a run of SpecSend.
MaxSendCalls == 2

\* 439-440
SendNativeTokenFailed(error) ==
    JsError(<<"Failed to send native token: ">> \o error.message)

\* 422-430: sendNativeToken: getThirdwebSigner derives the key and builds
\* the wallet; signer.sendTransaction fills in the transaction
CallSendNativeToken(limit) ==
    /\ Len(calls) < limit
    /\ \E phone \in Phones :
          /\ calls' = Append(calls,
                 [NewCall("sendNativeToken", phone, "await_populate") EXCEPT
                     !.privateKey = deriveUserPrivateKey(phone),
                     !.address = AddressOf(deriveUserPrivateKey(phone))])
          /\ derivations' = CountDerivation(derivations, phone)
    /\ UNCHANGED <<apiCredsCache, sdkCache, chainBal, txs, remoteCalls, otherVars>>

\* 430-433: the transaction is signed with the tenant's key and sent
SendNativeSubmit ==
    /\ \E c \in CallIds :
          /\ At(c, "sendNativeToken", "await_populate")
          /\ SetCall(c, [calls[c] EXCEPT !.pc = "await_sendTransaction"])
          /\ walletTxs' = Append(walletTxs, WalletTx(calls[c].phone, "sendNativeToken", c, 0))
    /\ UNCHANGED <<apiCredsCache, sdkCache, chainBal, txs, remoteCalls, derivations,
                   signers, warnings, exchangeCalls, requests, executorToken, issuedSecret>>

\* 430, 438-441: filling in the transaction fails (no node reachable)
SendNativePopulateFailed ==
    /\ \E c \in CallIds :
          /\ At(c, "sendNativeToken", "await_populate")
          /\ SetCall(c, Throw(calls[c], SendNativeTokenFailed(RpcError)))
    /\ UNCHANGED <<apiCredsCache, sdkCache, chainBal, txs, remoteCalls, derivations, otherVars>>

\* 430-435: the node accepted the transaction: tx.wait()
SendNativeAccepted ==
    /\ \E c \in CallIds :
          /\ At(c, "sendNativeToken", "await_sendTransaction")
          /\ SetCall(c, [calls[c] EXCEPT !.pc = "await_wait"])
    /\ UNCHANGED <<apiCredsCache, sdkCache, chainBal, txs, remoteCalls, derivations, otherVars>>

\* 430, 438-441: the node rejected the transaction
SendNativeRejected ==
    /\ \E c \in CallIds :
          /\ At(c, "sendNativeToken", "await_sendTransaction")
          /\ SetCall(c, Throw(calls[c],
                 SendNativeTokenFailed(JsError(<<"transaction rejected">>))))
    /\ UNCHANGED <<apiCredsCache, sdkCache, chainBal, txs, remoteCalls, derivations, otherVars>>

\* 435-437: the receipt arrives: { txHash } is returned
SendNativeConfirmed ==
    /\ \E c \in CallIds :
          /\ At(c, "sendNativeToken", "await_wait")
          /\ SetCall(c, Return(calls[c]))
    /\ UNCHANGED <<apiCredsCache, sdkCache, chainBal, txs, remoteCalls, derivations, otherVars>>

\* 435, 438-441: tx.wait() rejects
SendNativeConfirmationFailed ==
    /\ \E c \in CallIds :
          /\ At(c, "sendNativeToken", "await_wait")
          /\ SetCall(c, Throw(calls[c],
                 SendNativeTokenFailed(JsError(<<"confirmation failed">>))))
    /\ UNCHANGED <<apiCredsCache, sdkCache, chainBal, txs, remoteCalls, derivations, otherVars>>

\* sendNativeToken next to ensureGasBalance, as the callers of the module
\* may invoke them.  Every tenant holds the threshold balance (InitCreds),
\* so ensureGasBalance never goes on to a top-up here.
NextSend ==
    \/ CallSendNativeToken(MaxSendCalls)
    \/ SendNativeSubmit
    \/ SendNativePopulateFailed
    \/ SendNativeAccepted
    \/ SendNativeRejected
    \/ SendNativeConfirmed
    \/ SendNativeConfirmationFailed
    \/ CallEnsureGasBalance(MaxSendCalls)
    \/ GasWalletResolved
    \/ GasWalletFailed
    \/ GasSufficient
    \/ GasBalanceReadFailed

SpecSend == InitCreds /\ [][NextSend]_vars

\* C20: whenever a signed transaction is sent for a tenant, ensureGasBalance
\* has been invoked for that tenant before.
C20_GasEnsuredBeforeSend ==
    \A w \in 1..Len(walletTxs) : walletTxs[w].gasChecked

----------------------------------------------------------------------------
(* startMasterWalletMonitoring                             lines 553-563   *)

\* Interval ticks in a run of SpecMonitor.
MaxTicks == 2

\* Calls made by request handling in a run of SpecMonitor.
MaxMonitorOtherCalls == 1

\* 527-535: checkMasterWalletBalance() as it stands at its balance read
NewHealthCall ==
    [NewCall("checkMasterWalletBalance", "", "await_masterBalance") EXCEPT
        !.address = MasterAddress]

MonitorCalls ==
    {c \in CallIds : calls[c].op \in {"startMasterWalletMonitoring",
                                      "checkMasterWalletBalance"}}

\* 553: startMasterWalletMonitoring has been called
MonitoringStarted ==
    \E c \in CallIds : calls[c].op = "startMasterWalletMonitoring"

\* Mutant: the interval does not fire while a check is in flight.
TimerArmed_UnlessInFlight(all) ==
    /\ \E c \in 1..Len(all) : all[c].op = "startMasterWalletMonitoring"
    /\ \A c \in 1..Len(all) :
          all[c].op = "checkMasterWalletBalance" => all[c].pc = "done"

\* 560-562: the interval set by startMasterWalletMonitoring; it is never
\* cleared and its callback tests nothing
TimerArmed(all) ==
    \E c \in 1..Len(all) : all[c].op = "startMasterWalletMonitoring"

\* 553-562: startMasterWalletMonitoring(): the first check is started and
\* the interval is set
StartMasterWalletMonitoring ==
    /\ ~MonitoringStarted
    /\ calls' = Append(Append(calls, NewCall("startMasterWalletMonitoring", "", "done")),
                       NewHealthCall)
    /\ UNCHANGED <<apiCredsCache, sdkCache, chainBal, txs, remoteCalls, derivations, otherVars>>

\* Checks started by the interval so far.
TicksFired ==
    Cardinality({c \in CallIds : calls[c].op = "checkMasterWalletBalance"}) - 1

\* 560-562: the interval fires: its callback starts a check
IntervalTick(limit) ==
    /\ TimerArmed(calls)
    /\ TicksFired < limit
    /\ calls' = Append(calls, NewHealthCall)
    /\ UNCHANGED <<apiCredsCache, sdkCache, chainBal, txs, remoteCalls, derivations, otherVars>>

\* No tenant balance is read here: they are fixed.
InitMonitor ==
    /\ InitHealth
    /\ \A a \in Addresses \ {MasterAddress} : chainBal[a] = MATIC_TOP_UP_THRESHOLD_WEI

\* Monitoring next to request handling (here: getThirdwebSigner calls).
NextMonitor ==
    \/ StartMasterWalletMonitoring
    \/ IntervalTick(MaxTicks)
    \/ HealthBalanceRead
    \/ HealthBalanceReadFailed
    \/ CallGetThirdwebSigner(Cardinality(MonitorCalls) + MaxMonitorOtherCalls)
    \/ SignerBuilt

\* The timer fires again and again; nothing else is assumed to make
\* progress: a balance read may stay unanswered for ever.
SpecMonitor ==
    InitMonitor /\ [][NextMonitor]_vars /\ WF_vars(IntervalTick(MaxTicks))

StartCall == CHOOSE c \in CallIds : calls[c].op = "startMasterWalletMonitoring"

\* C21: when monitoring is started a check is started at once, and from
\* then on every tick of the interval starts another one, whatever became
\* of the checks before it and whatever request handling does.
C21_CheckAtStartAndEveryTick ==
    /\ [](MonitoringStarted =>
            /\ StartCall + 1 \in CallIds
            /\ calls[StartCall + 1].op = "checkMasterWalletBalance")
    /\ (MonitoringStarted ~> (TicksFired = MaxTicks))

C21_Witness ==
    \E c1, c2, c3 \in CallIds :
       /\ MonitoringStarted /\ StartCall < c1 /\ c1 < c2 /\ c2 < c3
       /\ calls[c1].op = "checkMasterWalletBalance"
       /\ calls[c1].pc = "done" /\ calls[c1].masterBalance = Unread
       /\ At(c2, "checkMasterWalletBalance", "await_masterBalance")
       /\ calls[c3].op = "checkMasterWalletBalance"
       /\ TicksFired = MaxTicks

----------------------------------------------------------------------------
(* The tenant identifier as untrusted input                                *)

\* Calls made in a run of SpecTenantId.
MaxTenantIdCalls == 2

\* The empty string as phone argument.
EmptyPhone == ""

\* What a caller may pass as phone: a tenant's phone or the empty string.
TenantIds == Phones \cup {EmptyPhone}

\* The derivation count kept per tenant phone; a derivation for any other
\* argument shows in the key it returned.
CountDerivationOf(count, phone) ==
    IF phone \in Phones THEN CountDerivation(count, phone) ELSE count

\* 397-398: getThirdwebSigner(phone) with any string
CallGetThirdwebSignerOf(limit) ==
    /\ Len(calls) < limit
    /\ \E phone \in TenantIds :
          /\ calls' = Append(calls,
                 [NewCall("getThirdwebSigner", phone, "await_privateKey") EXCEPT
                     !.privateKey = deriveUserPrivateKey(phone)])
          /\ derivations' = CountDerivationOf(derivations, phone)
    /\ UNCHANGED <<apiCredsCache, sdkCache, chainBal, txs, remoteCalls, otherVars>>

\* 276-281, 248-258: getOrCreateServerWallet(phone) with any string
CallGetOrCreateServerWalletOf(limit) ==
    /\ Len(calls) < limit
    /\ \E phone \in TenantIds :
          /\ calls' = Append(calls,
                 [NewCall("getOrCreateServerWallet", phone, "await_getAddress") EXCEPT
                     !.privateKey = getSDKForUser(sdkCache, phone)[phone].privateKey])
          /\ sdkCache' = getSDKForUser(sdkCache, phone)
          /\ derivations' = IF MapHas(sdkCache, phone) THEN derivations
                            ELSE CountDerivationOf(derivations, phone)
    /\ UNCHANGED <<apiCredsCache, chainBal, txs, remoteCalls, otherVars>>

\* 50-58, 397-398: getApiCreds(phone) with any string, no entry cached
CallGetApiCredsMissOf(limit) ==
    /\ Len(calls) < limit
    /\ \E phone \in TenantIds :
          /\ ~MapHas(apiCredsCache, phone)
          /\ calls' = Append(calls,
                 [NewCredsCall(phone, "await_signer") EXCEPT
                     !.privateKey = deriveUserPrivateKey(phone)])
          /\ derivations' = CountDerivationOf(derivations, phone)
    /\ UNCHANGED <<apiCredsCache, sdkCache, chainBal, txs, remoteCalls, otherVars>>

\* 58-67: the signer is ready, l1.createOrDeriveApiKey(nonce) is invoked
CredsInvokeRemoteOf ==
    /\ \E c \in CallIds :
          /\ At(c, "getApiCreds", "await_signer")
          /\ SetCall(c, [calls[c] EXCEPT !.pc = "await_remote", !.remoteInvoked = TRUE])
          /\ remoteCalls' = IF calls[c].phone \in Phones
                            THEN [remoteCalls EXCEPT ![calls[c].phone] = @ + 1]
                            ELSE remoteCalls
    /\ UNCHANGED <<apiCredsCache, sdkCache, chainBal, txs, derivations, otherVars>>

NextTenantId ==
    \/ CallGetThirdwebSignerOf(MaxTenantIdCalls)
    \/ SignerBuilt
    \/ CallGetOrCreateServerWalletOf(MaxTenantIdCalls)
    \/ WalletResolved
    \/ WalletFailed
    \/ CallGetApiCredsHit(MaxTenantIdCalls)
    \/ CallGetApiCredsMissOf(MaxTenantIdCalls)
    \/ CredsInvokeRemoteOf
    \/ CredsDerived
    \/ CredsInvalidShape
    \/ CredsRemoteFailed

SpecTenantId == InitCreds /\ [][NextTenantId]_vars

\* C22: a call with the empty string as tenant identifier fails, derives
\* no key, and leaves no entry for the empty string in either cache.
C22_EmptyTenantIdRejected ==
    /\ \A c \in CallIds :
          (/\ calls[c].phone = EmptyPhone
           /\ calls[c].op \in {"getThirdwebSigner", "getOrCreateServerWallet",
                               "getApiCreds"}) =>
             /\ calls[c].privateKey = NoKey
             /\ calls[c].pc = "failed"
    /\ ~MapHas(sdkCache, EmptyPhone)
    /\ ~MapHas(apiCredsCache, EmptyPhone)

----------------------------------------------------------------------------
(* One submission and one confirmation wait per ensureGasBalance call      *)

\* How far a call of ensureGasBalance has come.
GasProgress(pc) ==
    CASE pc = "await_getAddress"    -> 1
      [] pc = "await_userBalance"   -> 2
      [] pc = "await_masterBalance" -> 3
      [] pc = "await_send"          -> 4
      [] pc = "await_wait"          -> 5
      [] OTHER                      -> 6

SubmissionsBy(allTxs, c) == {i \in 1..Len(allTxs) : allTxs[i].by = c}

SubmittedAtMostOnce(allCalls, allTxs, c) ==
    /\ Cardinality(SubmissionsBy(allTxs, c)) <= 1
    /\ \A i \in SubmissionsBy(allTxs, c) :
          /\ allCalls[c].tx = i
          /\ allTxs[i].status = "rejected" =>
                /\ allCalls[c].pc = "failed"
                /\ allCalls[c].error = GasCheckFailed(JsError(<<"transaction rejected">>))

\* C23: one ensureGasBalance call submits at most one transfer and waits for
\* its confirmation at most once: it never goes back to submitting or
\* waiting, and a failed submission or wait ends the call with an error.
C23_NoResubmission ==
    [][ \A c \in CallIds :
           calls[c].op = "ensureGasBalance" =>
              /\ SubmittedAtMostOnce(calls, txs, c)
              /\ SubmittedAtMostOnce(calls', txs', c)
              /\ calls'[c] # calls[c] =>
                    /\ GasProgress(calls'[c].pc) > GasProgress(calls[c].pc)
                    /\ calls[c].pc \in {"await_send", "await_wait"} =>
                          calls'[c].pc \in {"await_wait", "done", "failed"}
      ]_vars

C23_Witness ==
    \E c1, c2 \in CallIds :
       /\ calls[c1].op = "ensureGasBalance" /\ calls[c2].op = "ensureGasBalance"
       /\ calls[c1].pc = "failed" /\ calls[c1].tx # 0
       /\ txs[calls[c1].tx].status = "rejected"
       /\ calls[c2].pc = "failed" /\ calls[c2].tx # 0
       /\ txs[calls[c2].tx].status # "rejected"
       /\ calls[c2].error = GasCheckFailed(JsError(<<"confirmation failed">>))
       /\ Len(txs) = 2

----------------------------------------------------------------------------
(* The address fields of a ThirdwebSigner                                  *)

AddressFieldConsistent(signer) ==
    signer.address = NoAddress \/ signer.address = signer.privAddress

\* C24: between any two steps the public address field of an adapter is
\* empty or equal to the memoized address, and once it is set it never
\* changes, however the constructor's lookup and getAddress calls interleave.
C24_AddressFieldConsistent ==
    [][ \A s \in SignerIds :
           /\ AddressFieldConsistent(signers[s])
           /\ AddressFieldConsistent(signers'[s])
           /\ signers[s].address # NoAddress =>
                 signers'[s].address = signers[s].address
      ]_vars

C24_Witness ==
    \E s \in SignerIds, c \in AdapterCalls("getAddress") :
       /\ calls[c].signer = s /\ calls[c].pc = "done"
       /\ signers[s].lookups = 2 /\ signers[s].init = "resolved"
       /\ signers[s].address # NoAddress
       /\ signers[s].address = calls[c].address

----------------------------------------------------------------------------
(* What the credential cache holds                                         *)

Chars(str) == {str[i] : i \in 1..Len(str)}

FullyNormalized(creds) ==
    /\ Len(creds.key) > 0 /\ Trim(creds.key) = creds.key
    /\ Len(creds.passphrase) > 0 /\ Trim(creds.passphrase) = creds.passphrase
    /\ Len(creds.secret) > 0
    /\ Len(creds.secret) % 4 = 0
    /\ Chars(creds.secret) \cap {"-", "_"} = {}

InvalidShapeErrors ==
    {JsError(<<m>>) : m \in {"Invalid api creds: not an object",
                             "Invalid api creds: missing key/apiKey",
                             "Invalid api creds: missing secret",
                             "Invalid api creds: missing passphrase"}}

\* C25: every entry of the credential cache is a fully normalized
\* credential returned by a call that succeeded; a call whose response was
\* rejected for its shape returns no credential and caches none.
C25_CacheHoldsNormalizedCreds ==
    /\ \A p \in DOMAIN apiCredsCache :
          /\ FullyNormalized(apiCredsCache[p])
          /\ \E c \in CallIds :
                /\ calls[c].op = "getApiCreds" /\ calls[c].phone = p
                /\ calls[c].pc = "done" /\ calls[c].creds = apiCredsCache[p]
    /\ \A c \in CallIds :
          (calls[c].op = "getApiCreds" /\ calls[c].error \in InvalidShapeErrors) =>
             /\ calls[c].pc = "failed"
             /\ calls[c].creds = NoCreds

C25_Witness ==
    \E p \in DOMAIN apiCredsCache, c \in CallIds :
       /\ calls[c].op = "getApiCreds" /\ calls[c].pc = "failed"
       /\ calls[c].error = JsError(<<"Invalid api creds: missing passphrase">>)
       /\ apiCredsCache[p].secret = <<"a", "+", "/", "=">>
       /\ apiCredsCache[p].key = <<"k", p>>

=============================================================================
